---- MODULE Spec2Model ----
(***************************************************************************)
(* A model of odatasql: FilterToSQL = TrimSpace, tokenize, parse, ToSQL.   *)
(* Text is a sequence of one-character strings, so that the tokenizer, the *)
(* sanitizer and the renderer work on characters as the Go code does.      *)
(***************************************************************************)
EXTENDS Integers, Sequences, FiniteSets, TLC

VARIABLES input, filter, pc, tokens, ast, sql, err, calls

vars == <<input, filter, pc, tokens, ast, sql, err, calls>>

(***************************************************************************)
(* Characters and text helpers (Go package strings).                       *)
(***************************************************************************)
LowerLetters == <<"a","b","c","d","e","f","g","h","i","j","k","l","m",
                  "n","o","p","q","r","s","t","u","v","w","x","y","z">>
UpperLetters == <<"A","B","C","D","E","F","G","H","I","J","K","L","M",
                  "N","O","P","Q","R","S","T","U","V","W","X","Y","Z">>
Digits == {"0","1","2","3","4","5","6","7","8","9"}

IsUpper(c) == \E i \in DOMAIN UpperLetters : UpperLetters[i] = c
IsLower(c) == \E i \in DOMAIN LowerLetters : LowerLetters[i] = c
IsDigit(c) == c \in Digits

ToLowerCh(c) ==
    IF IsUpper(c)
    THEN LowerLetters[CHOOSE i \in DOMAIN UpperLetters : UpperLetters[i] = c]
    ELSE c

\* strings.ToLower
ToLower(s) == [i \in 1..Len(s) |-> ToLowerCh(s[i])]

\* s[from:] of Go, with from a 1-based position
Drop(s, from) == SubSeq(s, from, Len(s))

\* strings.Contains
Contains(s, sub) ==
    \E i \in 1..(Len(s) - Len(sub) + 1) : SubSeq(s, i, i + Len(sub) - 1) = sub

\* unicode.IsSpace on the characters of the model
IsSpace(c) == c \in {" ", "\t", "\n", "\r", "\f"}

\* Mutant of TrimSpace: nothing is trimmed.
TrimNothing(s) == s

RECURSIVE TrimLeftSpace(_)
TrimLeftSpace(s) ==
    IF s # <<>> /\ IsSpace(Head(s)) THEN TrimLeftSpace(Tail(s)) ELSE s

RECURSIVE TrimRightSpace(_)
TrimRightSpace(s) ==
    IF s # <<>> /\ IsSpace(s[Len(s)])
    THEN TrimRightSpace(SubSeq(s, 1, Len(s) - 1)) ELSE s

\* strings.TrimSpace
TrimSpace(s) == TrimRightSpace(TrimLeftSpace(s))

RECURSIVE TrimLeftQuotes(_)
TrimLeftQuotes(s) ==
    IF s # <<>> /\ Head(s) = "'" THEN TrimLeftQuotes(Tail(s)) ELSE s

RECURSIVE TrimRightQuotes(_)
TrimRightQuotes(s) ==
    IF s # <<>> /\ s[Len(s)] = "'"
    THEN TrimRightQuotes(SubSeq(s, 1, Len(s) - 1)) ELSE s

\* strings.Trim(value, "'"): every leading and trailing quote is removed
TrimQuotes(s) == TrimRightQuotes(TrimLeftQuotes(s))

\* Mutant of EscapeQuotes: the quotes inside the value are left as they are.
EscapeQuotesNone(s) == s

\* strings.ReplaceAll(value, "'", "''")
RECURSIVE EscapeQuotes(_)
EscapeQuotes(s) ==
    IF s = <<>> THEN <<>>
    ELSE (IF Head(s) = "'" THEN <<"'", "'">> ELSE <<Head(s)>>)
         \o EscapeQuotes(Tail(s))

(***************************************************************************)
(* strconv.ParseFloat(w, 64) and strconv.Atoi(w) succeeding, for decimal   *)
(* text: [sign] digits [. digits] [e [sign] digits], and the special       *)
(* values inf, infinity and nan.  Hexadecimal floats, digit separators and *)
(* out-of-range exponents are outside the texts the model draws.           *)
(***************************************************************************)
IsSign(c) == c \in {"+", "-"}

AllDigits(s) == \A i \in 1..Len(s) : IsDigit(s[i])

\* digits [. digits] with at least one digit in all
IsMantissa(s) ==
    \/ (s # <<>> /\ AllDigits(s))
    \/ \E k \in 1..Len(s) :
          /\ s[k] = "."
          /\ AllDigits(SubSeq(s, 1, k - 1))
          /\ AllDigits(SubSeq(s, k + 1, Len(s)))
          /\ Len(s) > 1

IsExponent(s) ==
    LET d == IF s # <<>> /\ IsSign(Head(s)) THEN Tail(s) ELSE s
    IN  d # <<>> /\ AllDigits(d)

IsDecimal(s) ==
    \/ IsMantissa(s)
    \/ \E k \in 1..Len(s) :
          /\ ToLowerCh(s[k]) = "e"
          /\ IsMantissa(SubSeq(s, 1, k - 1))
          /\ IsExponent(SubSeq(s, k + 1, Len(s)))

IsSpecialFloat(s) ==
    LET l == ToLower(s)
        u == IF l # <<>> /\ IsSign(Head(l)) THEN Tail(l) ELSE l
    IN  \/ u = <<"i","n","f">>
        \/ u = <<"i","n","f","i","n","i","t","y">>
        \/ l = <<"n","a","n">>

ParseFloatOk(w) ==
    LET u == IF w # <<>> /\ IsSign(Head(w)) THEN Tail(w) ELSE w
    IN  IsSpecialFloat(w) \/ IsDecimal(u)

AtoiOk(w) ==
    LET u == IF w # <<>> /\ IsSign(Head(w)) THEN Tail(w) ELSE w
    IN  u # <<>> /\ AllDigits(u)

(***************************************************************************)
(* internal/tokenizer.go                                                   *)
(***************************************************************************)
tIdentifier == "tIdentifier"
tString     == "tString"
tNumber     == "tNumber"
tParenOpen  == "tParenOpen"
tParenClose == "tParenClose"
tComma      == "tComma"
tOpIn       == "tOpIn"
tOpNot      == "tOpNot"
tOpAnd      == "tOpAnd"
tOpOr       == "tOpOr"
tOpEq       == "tOpEq"
tOpNe       == "tOpNe"
tOpGt       == "tOpGt"
tOpGe       == "tOpGe"
tOpLt       == "tOpLt"
tOpLe       == "tOpLe"
\* named by parser.go in value position; the tokenizer never produces it
tLiteral    == "tLiteral"

token(typ, val) == [typ |-> typ, val |-> val]

keywordTokens ==
    { <<<<"i","n">>, tOpIn>>, <<<<"n","o","t">>, tOpNot>>,
      <<<<"a","n","d">>, tOpAnd>>, <<<<"o","r">>, tOpOr>>,
      <<<<"e","q">>, tOpEq>>, <<<<"n","e">>, tOpNe>>,
      <<<<"g","t">>, tOpGt>>, <<<<"g","e">>, tOpGe>>,
      <<<<"l","t">>, tOpLt>>, <<<<"l","e">>, tOpLe>> }

isWhitespace(ch) == ch \in {" ", "\t", "\n", "\r"}

isDelimiter(ch) == isWhitespace(ch) \/ ch \in {"(", ")", ",", "'"}

\* Mutant of keywordKey: the word is looked up as it is written.
keywordKeyExact(w) == w

\* the key classifyWord looks up in keywordTokens
keywordKey(w) == ToLower(w)

classifyWord(w) ==
    LET lower == keywordKey(w)
    IN  IF \E k \in keywordTokens : k[1] = lower
        THEN token((CHOOSE k \in keywordTokens : k[1] = lower)[2], lower)
        ELSE IF ParseFloatOk(w) THEN token(tNumber, w)
        ELSE token(tIdentifier, w)

\* The loop of readQuotedString from position i (1-based) of input, with sb
\* the text built so far.  Returns [ok, str, consumed].
RECURSIVE readQuotedLoop(_, _, _)
readQuotedLoop(in, i, sb) ==
    IF i > Len(in)
    THEN [ok |-> FALSE, str |-> <<>>, consumed |-> 0,
          err |-> "unclosed string literal"]
    ELSE IF in[i] = "'"
         THEN IF i + 1 <= Len(in) /\ in[i + 1] = "'"
              THEN readQuotedLoop(in, i + 2, sb \o <<"'">>)
              ELSE [ok |-> TRUE, str |-> sb \o <<"'">>, consumed |-> i,
                    err |-> ""]
         ELSE readQuotedLoop(in, i + 1, sb \o <<in[i]>>)

readQuotedString(in) ==
    IF Len(in) < 2 \/ in[1] # "'"
    THEN [ok |-> FALSE, str |-> <<>>, consumed |-> 0,
          err |-> "invalid quoted string"]
    ELSE readQuotedLoop(in, 2, <<"'">>)

\* the end (exclusive) of the word that starts at i
RECURSIVE wordEnd(_, _)
wordEnd(s, i) ==
    IF i <= Len(s) /\ ~isDelimiter(s[i]) THEN wordEnd(s, i + 1) ELSE i

\* The loop of tokenize over s from position i.  Returns [tokens, err].
RECURSIVE tokenizeLoop(_, _, _)
tokenizeLoop(s, i, toks) ==
    IF i > Len(s) THEN [tokens |-> toks, err |-> ""]
    ELSE LET ch == s[i] IN
         IF isWhitespace(ch) THEN tokenizeLoop(s, i + 1, toks)
         ELSE IF ch = "(" THEN
             tokenizeLoop(s, i + 1, Append(toks, token(tParenOpen, <<"(">>)))
         ELSE IF ch = ")" THEN
             tokenizeLoop(s, i + 1, Append(toks, token(tParenClose, <<")">>)))
         ELSE IF ch = "," THEN
             tokenizeLoop(s, i + 1, Append(toks, token(tComma, <<",">>)))
         ELSE IF ch = "'" THEN
             LET q == readQuotedString(Drop(s, i)) IN
             IF ~q.ok THEN [tokens |-> <<>>, err |-> q.err]
             ELSE tokenizeLoop(s, i + q.consumed,
                               Append(toks, token(tString, q.str)))
         ELSE LET e == wordEnd(s, i) IN
              tokenizeLoop(s, e,
                           Append(toks, classifyWord(SubSeq(s, i, e - 1))))

tokenize(in) == tokenizeLoop(TrimSpace(in), 1, <<>>)

(***************************************************************************)
(* internal/util.go                                                        *)
(***************************************************************************)
reservedSQLKeywords ==
    { <<"s","e","l","e","c","t">>, <<"i","n","s","e","r","t">>,
      <<"u","p","d","a","t","e">>, <<"d","e","l","e","t","e">>,
      <<"d","r","o","p">>, <<"a","l","t","e","r">>, <<"f","r","o","m">>,
      <<"w","h","e","r","e">>, <<"j","o","i","n">>, <<"o","r","d","e","r">>,
      <<"g","r","o","u","p">>, <<"h","a","v","i","n","g">>,
      <<"l","i","m","i","t">>, <<"o","f","f","s","e","t">>,
      <<"u","n","i","o","n">>, <<"e","x","c","e","p","t">>,
      <<"i","n","t","e","r","s","e","c","t">> }

\* camelToSnakeRegex.ReplaceAllString(s, "${1}_${2}"): the leftmost matches of
\* ([a-z0-9])([A-Z]), none overlapping, each with "_" put between its two
\* characters.
RECURSIVE camelToSnake(_, _)
camelToSnake(s, i) ==
    IF i > Len(s) THEN <<>>
    ELSE IF /\ i + 1 <= Len(s)
            /\ (IsLower(s[i]) \/ IsDigit(s[i]))
            /\ IsUpper(s[i + 1])
         THEN <<s[i], "_", s[i + 1]>> \o camelToSnake(s, i + 2)
         ELSE <<s[i]>> \o camelToSnake(s, i + 1)

\* Mutant of ToSnakeCase: lower case only, nothing inserted.
ToSnakeCaseLowerOnly(s) == ToLower(s)

ToSnakeCase(s) == ToLower(camelToSnake(s, 1))

IsReservedSQLKeyword(s) == ToLower(s) \in reservedSQLKeywords

SanitizeValue(v) ==
    LET value == TrimSpace(v)
        lower == ToLower(value)
    IN  IF AtoiOk(value) THEN value
        ELSE IF ParseFloatOk(value) THEN value
        ELSE IF lower \in { <<"t","r","u","e">>, <<"f","a","l","s","e">>,
                            <<"n","u","l","l">> }
             THEN lower
        ELSE <<"'">> \o EscapeQuotes(TrimQuotes(value)) \o <<"'">>

(***************************************************************************)
(* validateAndSanitizeValue of package parser (a second parser source of   *)
(* the repository).  FilterToSQL calls internal.BuildAST, whose parser     *)
(* calls SanitizeValue above, so no action below uses this operator; it    *)
(* is here for the tests it makes that SanitizeValue does not.             *)
(* Returns [value, err].                                                   *)
(***************************************************************************)
bannedPatterns == { <<";">>, <<"-","-">>, <<"/","*">>, <<"*","/">> }

HasBanned(s) == \E b \in bannedPatterns : Contains(s, b)

validateAndSanitizeValue(v) ==
    IF AtoiOk(TrimSpace(v)) \/ ParseFloatOk(TrimSpace(v))
    THEN [value |-> TrimSpace(v), err |-> ""]
    ELSE IF HasBanned(ToLower(TrimSpace(v)))
    THEN [value |-> <<>>, err |-> "invalid input detected"]
    ELSE IF IsReservedSQLKeyword(ToLower(TrimSpace(v)))
    THEN [value |-> <<>>,
          err |-> "invalid input detected: is a reserved SQL keyword"]
    ELSE [value |-> SanitizeValue(v), err |-> ""]

(***************************************************************************)
(* The AST and its rendering (package internal, Node.ToSQL).               *)
(***************************************************************************)
opAnd == <<"A","N","D">>
opOr  == <<"O","R">>
opNot == <<"N","O","T">>
opIn  == <<"I","N">>

NoNode == [kind |-> "nil"]
BinaryNode(op, left, right) ==
    [kind |-> "Binary", Op |-> op, Left |-> left, Right |-> right]
NotNode(child) == [kind |-> "Not", Child |-> child]
ConditionNode(field, op, value) ==
    [kind |-> "Condition", Field |-> field, Op |-> op, Value |-> value]
InNode(field, values) == [kind |-> "In", Field |-> field, Values |-> values]
ParenNode(child) == [kind |-> "Paren", Child |-> child]

\* Mutant of Join: the values are separated by "," alone.
RECURSIVE JoinNoSpace(_)
JoinNoSpace(values) ==
    IF values = <<>> THEN <<>>
    ELSE IF Len(values) = 1 THEN values[1]
    ELSE values[1] \o <<",">> \o JoinNoSpace(Tail(values))

\* strings.Join(values, ", ")
RECURSIVE Join(_)
Join(values) ==
    IF values = <<>> THEN <<>>
    ELSE IF Len(values) = 1 THEN values[1]
    ELSE values[1] \o <<",", " ">> \o Join(Tail(values))

\* Mutant of WrapIfNested: a nested node is never wrapped.
WrapNever(level, text) == text

\* what the wrap-if-nested rule of BinaryNode.ToSQL and NotNode.ToSQL does
\* with the text of a node rendered at level
WrapIfNested(level, text) ==
    IF level > 0 THEN <<"(">> \o text \o <<")">> ELSE text

\* Mutant of ParenChildLevel: the child is rendered one level down, as the
\* children of the other nodes are.
ParenChildLevelNested(level) == level + 1

\* the level at which ParenNode.ToSQL renders its child
ParenChildLevel(level) == 0

\* Mutant of NotChildLevel: the child is rendered at the level of the NOT.
NotChildLevelSame(level) == level

\* the level at which NotNode.ToSQL renders its child
NotChildLevel(level) == level + 1

\* the level at which BinaryNode.ToSQL renders its two children
BinaryChildLevel(level) == level + 1

RECURSIVE ToSQL(_, _)
ToSQL(n, level) ==
    CASE n.kind = "Binary" ->
           WrapIfNested(level,
               ToSQL(n.Left, BinaryChildLevel(level)) \o <<" ">> \o n.Op
               \o <<" ">> \o ToSQL(n.Right, BinaryChildLevel(level)))
      [] n.kind = "Not" ->
           WrapIfNested(level,
               opNot \o <<" ">> \o ToSQL(n.Child, NotChildLevel(level)))
      [] n.kind = "Condition" ->
           n.Field \o <<" ">> \o n.Op \o <<" ">> \o n.Value
      [] n.kind = "In" ->
           n.Field \o <<" ">> \o opIn \o <<" ", "(">> \o Join(n.Values)
           \o <<")">>
      [] n.kind = "Paren" ->
           <<"(">> \o ToSQL(n.Child, ParenChildLevel(level)) \o <<")">>

(***************************************************************************)
(* internal/parser.go.  A parse function returns [node, pos, err, calls]:  *)
(* the node built, the parser's position after it (1-based, so Go's        *)
(* pos + 1), the error ("" for nil) and the depth its call stack reached.  *)
(* A Go run-time panic unwinds through every caller, as an error does, and *)
(* is told apart by its text.                                              *)
(***************************************************************************)
sqlEq == <<"=">>
sqlNe == <<"!", "=">>
sqlGt == <<">">>
sqlGe == <<">", "=">>
sqlLt == <<"<">>
sqlLe == <<"<", "=">>

maxNestingDepth == 10

opMapping ==
    { <<<<"e","q">>, sqlEq>>, <<<<"n","e">>, sqlNe>>, <<<<"g","t">>, sqlGt>>,
      <<<<"g","e">>, sqlGe>>, <<<<"l","t">>, sqlLt>>, <<<<"l","e">>, sqlLe>> }

validOperators ==
    { <<"e","q">>, <<"n","e">>, <<"g","t">>, <<"g","e">>, <<"l","t">>,
      <<"l","e">> }

isValidOperator(op) == op \in validOperators

PanicIndex == "panic: runtime error: index out of range"

\* What a parser function returns, with calls: the most calls of parse,
\* parseExpression, parseOr, parseAnd, parseNot, parsePrimary and
\* parseConditionOrIn that stood on the call stack at once while it ran.
Ok(node, pos) == [node |-> node, pos |-> pos, err |-> "", calls |-> 0]
Fail(pos, e) == [node |-> NoNode, pos |-> pos, err |-> e, calls |-> 0]

WithCalls(r, c) == [r EXCEPT !.calls = c]

deeper(a, b) == IF a > b THEN a ELSE b

isAtEnd(toks, pos) == pos > Len(toks)

check(toks, pos, tt) == ~isAtEnd(toks, pos) /\ toks[pos].typ = tt

\* p.current() where its value is formatted into an error: tokens[pos] is
\* read, which panics when pos is at the end
currentOrPanic(toks, pos, e) ==
    IF isAtEnd(toks, pos) THEN Fail(pos, PanicIndex) ELSE Fail(pos, e)

\* The token kinds parseConditionOrIn takes as a value of an IN list and of
\* a comparison.
inValueTypes == {tString, tNumber, tIdentifier}
conditionValueTypes == {tString, tNumber, tIdentifier, tLiteral}

\* The for loop of the IN branch, from pos with the values read so far.
\* Returns [values, pos, err].
RECURSIVE inListLoop(_, _, _)
inListLoop(toks, pos, values) ==
    IF check(toks, pos, tParenClose)
    THEN [values |-> values, pos |-> pos, err |-> ""]
    ELSE IF isAtEnd(toks, pos)
    THEN [values |-> values, pos |-> pos, err |-> "unclosed IN list"]
    ELSE IF toks[pos].typ \notin inValueTypes
    THEN [values |-> values, pos |-> pos, err |-> "invalid value in IN list"]
    ELSE IF check(toks, pos + 1, tComma)
    THEN inListLoop(toks, pos + 2,
                    Append(values, SanitizeValue(toks[pos].val)))
    ELSE [values |-> Append(values, SanitizeValue(toks[pos].val)),
          pos |-> pos + 1, err |-> ""]

\* parseConditionOrIn after the loop of the IN branch has ended with r
inListClose(toks, field, r) ==
    IF r.err # "" THEN Fail(r.pos, r.err)
    ELSE IF ~check(toks, r.pos, tParenClose)
    THEN Fail(r.pos, "missing closing parenthesis in IN list")
    ELSE Ok(InNode(field, r.values), r.pos + 1)

\* the IN branch of parseConditionOrIn, with pos after the IN token
parseIn(toks, field, pos) ==
    IF ~check(toks, pos, tParenOpen)
    THEN Fail(pos, "expected '(' after 'IN'")
    ELSE IF check(toks, pos + 1, tParenClose)
    THEN Fail(pos + 1, "IN operator must have at least one value")
    ELSE inListClose(toks, field, inListLoop(toks, pos + 1, <<>>))

sqlOpOf(op) == (CHOOSE m \in opMapping : m[1] = op)[2]

\* the comparison branch of parseConditionOrIn, with pos after the field
parseComparison(toks, field, pos) ==
    IF isAtEnd(toks, pos) THEN Fail(pos, "expected operator after field")
    ELSE IF ~isValidOperator(toks[pos].val)
    THEN Fail(pos, "unsupported operator")
    ELSE IF isAtEnd(toks, pos + 1)
    THEN Fail(pos + 1, "missing value after operator")
    ELSE IF toks[pos + 1].typ \notin conditionValueTypes
    THEN Fail(pos + 1, "invalid value")
    ELSE Ok(ConditionNode(field, sqlOpOf(toks[pos].val),
                          SanitizeValue(toks[pos + 1].val)),
            pos + 2)

\* Mutant of reservedField: the field is not tested (as in the parser before
\* the test was added).
reservedFieldNever(field) == FALSE

\* the test parseConditionOrIn makes of the snake-cased field
reservedField(field) == IsReservedSQLKeyword(field)

\* parseConditionOrIn from the reserved-keyword test on, with pos after the
\* field token
parseAfterField(toks, field, pos) ==
    IF reservedField(field) THEN Fail(pos, "invalid field name")
    ELSE IF check(toks, pos, tOpIn) THEN parseIn(toks, field, pos + 1)
    ELSE parseComparison(toks, field, pos)

parseConditionOrIn(toks, pos, frames) ==
    WithCalls(IF ~check(toks, pos, tIdentifier)
              THEN currentOrPanic(toks, pos, "expected field name")
              ELSE parseAfterField(toks, ToSnakeCase(toks[pos].val), pos + 1),
              frames)

\* Mutant of tooDeep: the limit itself is already too deep.
tooDeepAtLimit(depth) == depth >= maxNestingDepth

\* the test at the head of parsePrimary
tooDeep(depth) == depth > maxNestingDepth

\* Mutant of missingOperand: the end of the tokens is not tested.
missingOperandNever(toks, pos) == FALSE

\* the test parseOr, parseAnd and parseNot make after OR, AND and NOT
missingOperand(toks, pos) == isAtEnd(toks, pos)

\* Mutant of parseEnd: what follows the expression is not looked at.
parseEndAnywhere(toks, r) == r

\* Each function below takes, in the place of depth, the record at: depth,
\* the argument of the code, and frames, the number of parser calls on the
\* call stack with its own.  parseXLoop takes deep, the calls of the deepest
\* operand parsed so far.
called(at) == [at EXCEPT !.frames = @ + 1]

\* parseExpression(depth + 1) called by parsePrimary
calledDeeper(at) == [depth |-> at.depth + 1, frames |-> at.frames + 1]

RECURSIVE parseOr(_, _, _)
RECURSIVE parseOrLoop(_, _, _, _, _)
RECURSIVE parseOrRight(_, _, _, _, _)
RECURSIVE parseAnd(_, _, _)
RECURSIVE parseAndLoop(_, _, _, _, _)
RECURSIVE parseAndRight(_, _, _, _, _)
RECURSIVE parseNot(_, _, _)
RECURSIVE parsePrimary(_, _, _)

parseExpression(toks, pos, at) == parseOr(toks, pos, called(at))

\* `if err != nil { return nil, err }` after a call that returned r, and
\* otherwise the for loop of parseOr with r.node as left
parseOrLeft(toks, at, r) ==
    IF r.err # "" THEN r
    ELSE parseOrLoop(toks, r.pos, at, r.node, r.calls)

parseOr(toks, pos, at) ==
    parseOrLeft(toks, at, parseAnd(toks, pos, called(at)))

\* the for loop of parseOr with left built so far
parseOrLoop(toks, pos, at, left, deep) ==
    IF ~check(toks, pos, tOpOr) THEN WithCalls(Ok(left, pos), deep)
    ELSE IF missingOperand(toks, pos + 1)
    THEN WithCalls(Fail(pos + 1,
                        "expected expression after OR, but found end of input"),
                   deep)
    ELSE parseOrRight(toks, at, left, deep,
                      parseAnd(toks, pos + 1, called(at)))

\* the rest of the loop body once the right operand has been parsed as r
parseOrRight(toks, at, left, deep, r) ==
    IF r.err # "" THEN WithCalls(r, deeper(deep, r.calls))
    ELSE parseOrLoop(toks, r.pos, at,
                     BinaryNode(opOr, left, r.node), deeper(deep, r.calls))

parseAndLeft(toks, at, r) ==
    IF r.err # "" THEN r
    ELSE parseAndLoop(toks, r.pos, at, r.node, r.calls)

parseAnd(toks, pos, at) ==
    parseAndLeft(toks, at, parseNot(toks, pos, called(at)))

\* the for loop of parseAnd with left built so far
parseAndLoop(toks, pos, at, left, deep) ==
    IF ~check(toks, pos, tOpAnd) THEN WithCalls(Ok(left, pos), deep)
    ELSE IF missingOperand(toks, pos + 1)
    THEN WithCalls(Fail(pos + 1,
                        "expected expression after AND, but found end of input"),
                   deep)
    ELSE parseAndRight(toks, at, left, deep,
                       parseNot(toks, pos + 1, called(at)))

parseAndRight(toks, at, left, deep, r) ==
    IF r.err # "" THEN WithCalls(r, deeper(deep, r.calls))
    ELSE parseAndLoop(toks, r.pos, at,
                      BinaryNode(opAnd, left, r.node), deeper(deep, r.calls))

\* parseNot once the operand of NOT has been parsed as c
parseNotChild(c) ==
    IF c.err # "" THEN c ELSE WithCalls(Ok(NotNode(c.node), c.pos), c.calls)

parseNot(toks, pos, at) ==
    IF check(toks, pos, tOpNot)
    THEN IF missingOperand(toks, pos + 1)
         THEN WithCalls(Fail(pos + 1, "invalid use of NOT: missing expression"),
                        at.frames)
         ELSE parseNotChild(parseNot(toks, pos + 1, called(at)))
    ELSE parsePrimary(toks, pos, called(at))

\* parsePrimary once the expression after "(" has been parsed as n
parseParenClose(toks, n) ==
    IF n.err # "" THEN n
    ELSE IF ~check(toks, n.pos, tParenClose)
    THEN WithCalls(Fail(n.pos, "missing closing parenthesis"), n.calls)
    ELSE WithCalls(Ok(ParenNode(n.node), n.pos + 1), n.calls)

parsePrimary(toks, pos, at) ==
    IF tooDeep(at.depth)
    THEN WithCalls(Fail(pos, "exceeded maximum nesting depth"), at.frames)
    ELSE IF check(toks, pos, tParenOpen)
    THEN parseParenClose(toks, parseExpression(toks, pos + 1, calledDeeper(at)))
    ELSE parseConditionOrIn(toks, pos, at.frames + 1)

\* parse once parseExpression(0) has returned r
parseEnd(toks, r) ==
    IF r.err # "" THEN r
    ELSE IF ~isAtEnd(toks, r.pos)
    THEN WithCalls(Fail(r.pos, "unexpected extra tokens"), r.calls)
    ELSE r

\* parse is the first frame, parseExpression(0) the second
parse(toks) ==
    parseEnd(toks, parseExpression(toks, 1, [depth |-> 0, frames |-> 2]))

(***************************************************************************)
(* odatasql.go: FilterToSQL, one action per step of the call.              *)
(*   input   the argument of the call                                      *)
(*   filter  the local filter after strings.TrimSpace                      *)
(*   pc      the step the call is at; "returned" and "panicked" end it     *)
(*   tokens  the result of tokenize, ast the result of parse               *)
(*   sql, err  the two results of FilterToSQL                              *)
(*   calls   the most parser calls that stood on the call stack at once    *)
(***************************************************************************)
NoErr == [filter |-> <<>>, cause |-> ""]

\* fmt.Errorf("invalid OData filter %q: %w", filter, err)
WrapErr(f, cause) == [filter |-> f, cause |-> cause]

Trim ==
    /\ pc = "FilterToSQL"
    /\ filter' = TrimSpace(input)
    /\ IF filter' = <<>>
       THEN pc' = "returned"
       ELSE pc' = "tokenize"
    /\ UNCHANGED <<input, tokens, ast, sql, err, calls>>

\* BuildAST once tokenize has returned t
Tokenized(t) ==
    IF t.err # ""
    THEN /\ err' = WrapErr(filter, "tokenization failed: " \o t.err)
         /\ pc' = "returned"
         /\ UNCHANGED tokens
    ELSE /\ tokens' = t.tokens
         /\ pc' = "parse"
         /\ UNCHANGED err

Tokenize ==
    /\ pc = "tokenize"
    /\ Tokenized(tokenize(filter))
    /\ UNCHANGED <<input, filter, ast, sql, calls>>

\* FilterToSQL once parse has ended with r: a panic ends the call, an error is
\* wrapped and returned, a node goes on to be rendered
Parsed(r) ==
    /\ calls' = r.calls
    /\ IF r.err = PanicIndex
       THEN /\ pc' = "panicked"
            /\ UNCHANGED <<ast, err>>
       ELSE IF r.err # ""
       THEN /\ err' = WrapErr(filter, r.err)
            /\ pc' = "returned"
            /\ UNCHANGED ast
       ELSE /\ ast' = r.node
            /\ pc' = "ToSQL"
            /\ UNCHANGED err

Parse ==
    /\ pc = "parse"
    /\ Parsed(parse(tokens))
    /\ UNCHANGED <<input, filter, tokens, sql>>

Render ==
    /\ pc = "ToSQL"
    /\ sql' = ToSQL(ast, 0)
    /\ pc' = "returned"
    /\ UNCHANGED <<input, filter, tokens, ast, err, calls>>

Next == Trim \/ Tokenize \/ Parse \/ Render

InitCall(in) ==
    /\ input = in
    /\ filter = in
    /\ pc = "FilterToSQL"
    /\ tokens = <<>>
    /\ ast = NoNode
    /\ sql = <<>>
    /\ err = NoErr
    /\ calls = 0

(***************************************************************************)
(* The filters of Spec: one comparison "field op value" over the words     *)
(* below, its truncations, and IN conditions with up to MaxInList values.  *)
(***************************************************************************)
MaxInList == 2

FieldWords ==
    {
      <<"a">>,   \* a
      <<"F","i","r","s","t","N","a","m","e">>,   \* FirstName
      <<"i","s","A","c","t","i","v","e">>,   \* isActive
      <<"u","s","e","r","I","D">>,   \* userID
      <<"a","1","B">>,   \* a1B
      <<"a","B","c","D">>,   \* aBcD
      <<"S","E","L","E","C","T">>,   \* SELECT
      <<"D","r","o","p">>,   \* Drop
      <<"t","r","u","e">>,   \* true
      <<"f","a","l","s","e">>,   \* false
      <<"n","u","l","l">>,   \* null
      <<"x","=","1",";","-","-">>,   \* x=1;--
      <<"4","2">>,   \* 42
      <<"'","n","a","m","e","'">> }   \* 'name'

OpWords ==
    {
      <<"e","q">>,   \* eq
      <<"E","Q">>,   \* EQ
      <<"n","e">>,   \* ne
      <<"g","t">>,   \* gt
      <<"x","x">> }   \* xx

ValueWords ==
    {
      <<"1">>,   \* 1
      <<"-","2",".","5">>,   \* -2.5
      <<"1","e","3">>,   \* 1e3
      <<"N","a","N">>,   \* NaN
      <<"t","r","u","e">>,   \* true
      <<"T","R","U","E">>,   \* TRUE
      <<"n","u","l","l">>,   \* null
      <<"s","e","l","e","c","t">>,   \* select
      <<"D","R","O","P">>,   \* DROP
      <<"b","o","b">>,   \* bob
      <<"'","B","o","b","'">>,   \* 'Bob'
      <<"'","O","'","'","B","r","i","e","n","'">>,   \* 'O''Brien'
      <<"'","'","'","a","'">>,   \* '''a'
      <<"'","1",";"," ","D","R","O","P"," ","-","-","'">>,   \* '1; DROP --'
      <<"'","a","/","*","b","'">>,   \* 'a/*b'
      <<"'","*","/","'">>,   \* '*/'
      <<"a",";","b">>,   \* a;b
      <<"-","-">>,   \* --
      <<"'","'">>,   \* ''
      <<"'","s","e","l","e","c","t","'">> }   \* 'select'

InValueWords ==
    {
      <<"'","r","e","d","'">>,   \* 'red'
      <<"1">>,   \* 1
      <<"t","r","u","e">>,   \* true
      <<"f","a","l","s","e">>,   \* false
      <<"n","u","l","l">>,   \* null
      <<"d","r","o","p">>,   \* drop
      <<"'","a",";","b","'">> }   \* 'a;b'

Sp == <<" ">>

RECURSIVE SeqsUpTo(_, _)
SeqsUpTo(S, n) ==
    IF n = 0 THEN {<<>>}
    ELSE LET R == SeqsUpTo(S, n - 1) IN
         R \cup {Append(r, x) : r \in {t \in R : Len(t) = n - 1}, x \in S}

CondFilters ==
    {f \o Sp \o o \o Sp \o v : f \in FieldWords, o \in OpWords, v \in ValueWords}
    \cup {f \o Sp \o o : f \in FieldWords, o \in OpWords}
    \cup FieldWords

InHead == <<"c","o","l","o","r"," ","i","n"," ","(">>

\* the words of l written one after the other with ", " between two
RECURSIVE CommaSpaced(_)
CommaSpaced(l) ==
    IF l = <<>> THEN <<>>
    ELSE IF Len(l) = 1 THEN l[1]
    ELSE l[1] \o <<",", " ">> \o CommaSpaced(Tail(l))

InLists == SeqsUpTo(InValueWords, MaxInList)

InFilters ==
    {InHead \o CommaSpaced(l) \o <<")">> : l \in InLists}
    \cup {InHead \o CommaSpaced(l) : l \in InLists}

\* empty and all-whitespace filters
BlankFilters ==
    { <<>>, <<" ">>, <<" ", " ">>, <<"\t">>, <<"\n">>, <<"\r", "\n">>,
      <<" ", "\t", " ">> }

Filters == CondFilters \cup InFilters \cup BlankFilters

Init == \E in \in Filters : InitCall(in)

Spec == Init /\ [][Next]_vars

(***************************************************************************)
(* The filters of SpecLogic: the expressions over two comparisons with up  *)
(* to MaxOps operators (not, and, or, a pair of parentheses), written as   *)
(* the author would, and every truncation of one at a word boundary.       *)
(***************************************************************************)
MaxOps == 3

CondA == <<"a"," ","e","q"," ","1">>     \* a eq 1
CondB == <<"b"," ","n","e"," ","'","x","'">>   \* b ne 'x'
WordNot == <<"n","o","t">>
WordAnd == <<"a","n","d">>
WordOr  == <<"o","r">>
WordOpen  == <<"(">>
WordClose == <<")">>

\* the expressions with exactly k operators, each a sequence of words
RECURSIVE ExprsWith(_)
ExprsWith(k) ==
    IF k = 0 THEN {<<CondA>>, <<CondB>>}
    ELSE {<<WordNot>> \o e : e \in ExprsWith(k - 1)}
         \cup {<<WordOpen>> \o e \o <<WordClose>> : e \in ExprsWith(k - 1)}
         \cup UNION {{l \o <<o>> \o r : l \in ExprsWith(i),
                                        r \in ExprsWith(k - 1 - i),
                                        o \in {WordAnd, WordOr}}
                     : i \in 0..(k - 1)}

Exprs == UNION {ExprsWith(k) : k \in 0..MaxOps}

Truncations(S) == UNION {{SubSeq(e, 1, n) : n \in 0..Len(e)} : e \in S}

\* the text of a sequence of words: one space between two words, none after
\* "(" and none before ")"
RECURSIVE TextOf(_)
TextOf(ws) ==
    IF ws = <<>> THEN <<>>
    ELSE IF Len(ws) = 1 THEN ws[1]
    ELSE IF ws[1] = WordOpen \/ ws[2] = WordClose
    THEN ws[1] \o TextOf(Tail(ws))
    ELSE ws[1] \o Sp \o TextOf(Tail(ws))

LogicFilters == {TextOf(ws) : ws \in Truncations(Exprs)}

InitLogic == \E in \in LogicFilters : InitCall(in)

SpecLogic == InitLogic /\ [][Next]_vars

(***************************************************************************)
(* What the properties below read from a state.                            *)
(***************************************************************************)
Ended == pc \in {"returned", "panicked"}

\* FilterToSQL has returned SQL text and no error
Accepted == pc = "returned" /\ err = NoErr /\ filter # <<>>

\* FilterToSQL has returned an error
Rejected == pc = "returned" /\ err # NoErr

\* parse has returned a node
HasAst == ast # NoNode

RECURSIVE FieldsOf(_)
FieldsOf(n) ==
    CASE n.kind = "Binary" -> FieldsOf(n.Left) \cup FieldsOf(n.Right)
      [] n.kind \in {"Not", "Paren"} -> FieldsOf(n.Child)
      [] n.kind \in {"Condition", "In"} -> {n.Field}
      [] OTHER -> {}

RECURSIVE LiteralsOf(_)
LiteralsOf(n) ==
    CASE n.kind = "Binary" -> LiteralsOf(n.Left) \cup LiteralsOf(n.Right)
      [] n.kind \in {"Not", "Paren"} -> LiteralsOf(n.Child)
      [] n.kind = "Condition" -> {n.Value}
      [] n.kind = "In" -> {n.Values[i] : i \in DOMAIN n.Values}
      [] OTHER -> {}

CmpTypes == {tOpEq, tOpNe, tOpGt, tOpGe, tOpLt, tOpLe}

\* the positions of the tokens that stand where a condition's field stands:
\* a word before a comparison keyword or before IN, itself not the value of
\* a comparison
FieldPositions(toks) ==
    {i \in 1..(Len(toks) - 1) :
        /\ toks[i + 1].typ \in CmpTypes \cup {tOpIn}
        /\ toks[i].typ \in {tIdentifier, tNumber, tString}
        /\ (i = 1 \/ toks[i - 1].typ \notin CmpTypes)}

\* the positions of the tokens that stand where a value stands: after a
\* comparison keyword, or in the list of an IN
ValuePositions(toks) ==
    {i \in 2..Len(toks) :
        /\ toks[i].typ \in {tIdentifier, tNumber, tString}
        /\ \/ toks[i - 1].typ \in CmpTypes
           \/ toks[i - 1].typ = tComma
           \/ (i > 2 /\ toks[i - 1].typ = tParenOpen /\ toks[i - 2].typ = tOpIn)}

IsIdentChar(c) == IsLower(c) \/ IsUpper(c) \/ IsDigit(c) \/ c = "_"

\* a text whose single quotes all stand in adjacent pairs
RECURSIVE QuotesPaired(_)
QuotesPaired(s) ==
    IF s = <<>> THEN TRUE
    ELSE IF Head(s) # "'" THEN QuotesPaired(Tail(s))
    ELSE Len(s) >= 2 /\ s[2] = "'" /\ QuotesPaired(Drop(s, 3))

QuotedLiteral(v) ==
    /\ Len(v) >= 2
    /\ v[1] = "'"
    /\ v[Len(v)] = "'"
    /\ QuotesPaired(SubSeq(v, 2, Len(v) - 1))

BareLiterals == { <<"t","r","u","e">>, <<"f","a","l","s","e">>,
                  <<"n","u","l","l">> }

NumberLiteral(v) == v # <<>> /\ ~Contains(v, <<"'">>) /\ (AtoiOk(v) \/ ParseFloatOk(v))

(***************************************************************************)
(* C1  A call with a filter that is not empty after trimming ends by       *)
(* returning either SQL text and no error, or no text and an error; it     *)
(* never ends otherwise, also when the text stops right after a "(".       *)
(* The code panics there: parseConditionOrIn reads tokens[pos] at the end  *)
(* of the tokens to format "expected field name, got %v".                  *)
(***************************************************************************)
C1_ReturnsSqlOrError ==
    (Ended /\ TrimSpace(input) # <<>>) =>
        /\ pc = "returned"
        /\ \/ (sql # <<>> /\ err = NoErr)
           \/ (sql = <<>> /\ err # NoErr)

(***************************************************************************)
(* C2  Every field name of an accepted filter is made of letters, digits   *)
(* and "_" only.  The code takes any word that is neither a keyword nor a  *)
(* number as a field: "x=1;-- eq 1" gives "x=1;-- = 1".                    *)
(***************************************************************************)
C2_FieldsAreIdentifiers ==
    Accepted => \A f \in FieldsOf(ast) : \A i \in DOMAIN f : IsIdentChar(f[i])

(***************************************************************************)
(* C3  Every literal of an AST that parse returned is a number text, one   *)
(* of true, false, null, or a text between two single quotes whose inner   *)
(* single quotes all stand in adjacent pairs.                              *)
(***************************************************************************)
C3_LiteralsSanitized ==
    HasAst => \A v \in LiteralsOf(ast) :
                 NumberLiteral(v) \/ v \in BareLiterals \/ QuotedLiteral(v)

\* a string with an escaped quote inside has been parsed into a condition
C3_Witness ==
    /\ Accepted
    /\ ast.kind = "Condition"
    /\ ast.Value = <<"'","O","'","'","B","r","i","e","n","'">>
    /\ input = <<"a"," ","e","q"," ","'","O","'","'","B","r","i","e","n","'">>

(***************************************************************************)
(* C4  A filter with a literal in value position that contains ";", "--",  *)
(* "/*" or "*/" is rejected.  SanitizeValue of package internal has no     *)
(* such test: "a eq '1; DROP --'" gives "a = '1; DROP --'".                *)
(***************************************************************************)
C4_BannedLiteralRejected ==
    (pc = "returned" /\ \E i \in ValuePositions(tokens) :
                            /\ tokens[i].typ \in {tString, tIdentifier}
                            /\ HasBanned(tokens[i].val))
        => Rejected

(***************************************************************************)
(* C5  A filter with a bareword in value position whose lowercased text is *)
(* a reserved SQL keyword is rejected.  SanitizeValue of package internal  *)
(* quotes it instead: "a eq select" gives "a = 'select'".                  *)
(***************************************************************************)
C5_KeywordLiteralRejected ==
    (pc = "returned" /\ \E i \in ValuePositions(tokens) :
                            /\ tokens[i].typ = tIdentifier
                            /\ ToLower(tokens[i].val) \in reservedSQLKeywords)
        => Rejected

(***************************************************************************)
(* C6  A condition whose field, after snake-case conversion and            *)
(* lowercasing, is a reserved SQL keyword is rejected with the             *)
(* invalid-field error whatever the case of its letters, and no field of   *)
(* a returned AST is a reserved keyword.                                   *)
(***************************************************************************)
C6_KeywordFieldRejected ==
    /\ (pc = "returned" /\ tokens # <<>> /\ tokens[1].typ = tIdentifier
            /\ ToLower(camelToSnake(tokens[1].val, 1)) \in reservedSQLKeywords)
       => (Rejected /\ err.cause = "invalid field name" /\ sql = <<>>)
    /\ HasAst => \A f \in FieldsOf(ast) : f \notin reservedSQLKeywords

\* "Drop eq ..." has been rejected as an invalid field
C6_Witness ==
    /\ Rejected
    /\ err.cause = "invalid field name"
    /\ tokens[1].val = <<"D","r","o","p">>
    /\ Len(tokens) = 3

(***************************************************************************)
(* C7  A filter with the bareword true, false or null where a field stands *)
(* is rejected.  The tokenizer classifies these words as identifiers and   *)
(* the parser takes them as fields: "true eq 1" gives "true = 1".          *)
(***************************************************************************)
C7_BooleanFieldRejected ==
    (pc = "returned" /\ \E i \in FieldPositions(tokens) :
                            /\ tokens[i].typ = tIdentifier
                            /\ tokens[i].val \in BareLiterals)
        => Rejected

(***************************************************************************)
(* Reading rendered SQL back: the words of the text, then the operator     *)
(* tree that SQL precedence (NOT over AND over OR) and the parentheses     *)
(* give it.  A comparison is three words.  A read returns [node, pos].     *)
(***************************************************************************)
SqlA == <<"a"," ","="," ","1">>          \* what CondA renders as
SqlB == <<"b"," ","!","="," ","'","x","'">>   \* what CondB renders as

SqlOf(c) == IF c = CondA THEN SqlA ELSE SqlB

Flush(cur) == IF cur = <<>> THEN <<>> ELSE <<cur>>

RECURSIVE SqlWords(_, _, _)
SqlWords(s, i, cur) ==
    IF i > Len(s) THEN Flush(cur)
    ELSE IF s[i] = " " THEN Flush(cur) \o SqlWords(s, i + 1, <<>>)
    ELSE IF s[i] \in {"(", ")"}
    THEN Flush(cur) \o <<<<s[i]>>>> \o SqlWords(s, i + 1, <<>>)
    ELSE SqlWords(s, i + 1, Append(cur, s[i]))

WordAt(ws, pos) == IF pos \in DOMAIN ws THEN ws[pos] ELSE <<>>

Leaf(words) == [kind |-> "Leaf", words |-> words]

RECURSIVE ReadOr(_, _)
RECURSIVE ReadOrLoop(_, _)
RECURSIVE ReadAnd(_, _)
RECURSIVE ReadAndLoop(_, _)
RECURSIVE ReadNot(_, _)

ReadBinary(op, l, r) ==
    [node |-> [kind |-> "Binary", Op |-> op, Left |-> l.node, Right |-> r.node],
     pos |-> r.pos]

ReadNotOf(c) == [node |-> [kind |-> "Not", Child |-> c.node], pos |-> c.pos]

\* past the ")" that closes a group read as g
ReadClose(g) == [node |-> g.node, pos |-> g.pos + 1]

ReadOr(ws, pos) == ReadOrLoop(ws, ReadAnd(ws, pos))

ReadOrLoop(ws, l) ==
    IF WordAt(ws, l.pos) = opOr
    THEN ReadOrLoop(ws, ReadBinary(opOr, l, ReadAnd(ws, l.pos + 1)))
    ELSE l

ReadAnd(ws, pos) == ReadAndLoop(ws, ReadNot(ws, pos))

ReadAndLoop(ws, l) ==
    IF WordAt(ws, l.pos) = opAnd
    THEN ReadAndLoop(ws, ReadBinary(opAnd, l, ReadNot(ws, l.pos + 1)))
    ELSE l

ReadNot(ws, pos) ==
    IF pos > Len(ws) THEN [node |-> Leaf(<<>>), pos |-> pos]
    ELSE IF ws[pos] = opNot THEN ReadNotOf(ReadNot(ws, pos + 1))
    ELSE IF ws[pos] = <<"(">> THEN ReadClose(ReadOr(ws, pos + 1))
    ELSE [node |-> Leaf(<<WordAt(ws, pos), WordAt(ws, pos + 1),
                          WordAt(ws, pos + 2)>>),
          pos |-> pos + 3]

\* the whole text read as one expression; a text that is not one reads as
\* an empty leaf
ReadSQL(s) == ReadOr(SqlWords(s, 1, <<>>), 1)

SqlTree(s) ==
    IF ReadSQL(s).pos = Len(SqlWords(s, 1, <<>>)) + 1
    THEN ReadSQL(s).node ELSE Leaf(<<>>)

\* the operator tree of an AST: its Paren nodes left out
RECURSIVE OpTree(_)
OpTree(n) ==
    CASE n.kind = "Binary" ->
           [kind |-> "Binary", Op |-> n.Op, Left |-> OpTree(n.Left),
            Right |-> OpTree(n.Right)]
      [] n.kind = "Not" -> [kind |-> "Not", Child |-> OpTree(n.Child)]
      [] n.kind = "Paren" -> OpTree(n.Child)
      [] n.kind = "Condition" -> Leaf(<<n.Field, n.Op, n.Value>>)
      [] OTHER -> Leaf(<<>>)

Conds == {CondA, CondB}

SpAnd == <<" ">> \o opAnd \o <<" ">>
SpOr  == <<" ">> \o opOr \o <<" ">>
InParens(t) == <<"(">> \o t \o <<")">>

(***************************************************************************)
(* C8  Precedence is OR < AND < NOT < primary: without parentheses in the  *)
(* source, "A and B or C" renders as "(A AND B) OR C", "A or B and C" as   *)
(* "A OR (B AND C)", "not A and B" as "(NOT A) AND B", a top-level binary  *)
(* expression has no outer parentheses, and the rendered text of every     *)
(* accepted filter, read with SQL precedence and its parentheses, gives    *)
(* the operator tree of the AST.                                           *)
(***************************************************************************)
C8_Precedence ==
    Accepted =>
      /\ SqlTree(sql) = OpTree(ast)
      /\ \A x \in Conds, y \in Conds, z \in Conds :
           /\ input = TextOf(<<x, WordAnd, y, WordOr, z>>)
                => sql = InParens(SqlOf(x) \o SpAnd \o SqlOf(y)) \o SpOr \o SqlOf(z)
           /\ input = TextOf(<<x, WordOr, y, WordAnd, z>>)
                => sql = SqlOf(x) \o SpOr \o InParens(SqlOf(y) \o SpAnd \o SqlOf(z))
           /\ input = TextOf(<<x, WordAnd, y, WordAnd, z>>)
                => sql = InParens(SqlOf(x) \o SpAnd \o SqlOf(y)) \o SpAnd \o SqlOf(z)
           /\ input = TextOf(<<WordNot, x, WordAnd, y>>)
                => sql = InParens(opNot \o Sp \o SqlOf(x)) \o SpAnd \o SqlOf(y)
           /\ input = TextOf(<<x, WordOr, y>>)
                => sql = SqlOf(x) \o SpOr \o SqlOf(y)

\* "a eq 1 or b ne 'x' and a eq 1" has been rendered
C8_Witness ==
    /\ Accepted
    /\ input = TextOf(<<CondA, WordOr, CondB, WordAnd, CondA>>)
    /\ ast.kind = "Binary"
    /\ ast.Op = opOr
    /\ ast.Right.kind = "Binary"

(***************************************************************************)
(* C9  Explicit grouping is reproduced once per source pair: the AST has   *)
(* one Paren node for each "(" of the source (the filters here have no IN  *)
(* list), a Paren node renders at every level as one pair of parentheses   *)
(* around its child rendered at level 0, the rendered text has one "(" for *)
(* each Paren node and one for each Binary or Not node that is an operand  *)
(* of a Binary or Not node, and "((A))" renders as "((A))".                *)
(***************************************************************************)
RECURSIVE CountChar(_, _)
CountChar(s, c) ==
    IF s = <<>> THEN 0
    ELSE (IF Head(s) = c THEN 1 ELSE 0) + CountChar(Tail(s), c)

RECURSIVE ParenNodes(_)
ParenNodes(n) ==
    CASE n.kind = "Binary" -> ParenNodes(n.Left) \cup ParenNodes(n.Right)
      [] n.kind = "Not" -> ParenNodes(n.Child)
      [] n.kind = "Paren" -> {n} \cup ParenNodes(n.Child)
      [] OTHER -> {}

RECURSIVE CountParens(_)
CountParens(n) ==
    CASE n.kind = "Binary" -> CountParens(n.Left) + CountParens(n.Right)
      [] n.kind = "Not" -> CountParens(n.Child)
      [] n.kind = "Paren" -> 1 + CountParens(n.Child)
      [] OTHER -> 0

IsOperator(n) == n.kind \in {"Binary", "Not"}
OneIf(b) == IF b THEN 1 ELSE 0

\* the Binary and Not nodes that are an operand of a Binary or Not node
RECURSIVE NestedOperators(_)
NestedOperators(n) ==
    CASE n.kind = "Binary" ->
           OneIf(IsOperator(n.Left)) + OneIf(IsOperator(n.Right))
           + NestedOperators(n.Left) + NestedOperators(n.Right)
      [] n.kind = "Not" -> OneIf(IsOperator(n.Child)) + NestedOperators(n.Child)
      [] n.kind = "Paren" -> NestedOperators(n.Child)
      [] OTHER -> 0

C9_ExplicitGroups ==
    Accepted =>
      /\ CountParens(ast) = CountChar(filter, "(")
      /\ \A p \in ParenNodes(ast), level \in 0..3 :
           ToSQL(p, level) = InParens(ToSQL(p.Child, 0))
      /\ CountChar(sql, "(") = CountParens(ast) + NestedOperators(ast)
      /\ \A x \in Conds :
           input = TextOf(<<WordOpen, WordOpen, x, WordClose, WordClose>>)
             => sql = InParens(InParens(SqlOf(x)))

\* "(a eq 1 or b ne 'x') and a eq 1": a group that holds a binary expression
\* is the operand of AND
C9_Witness ==
    /\ Accepted
    /\ input = TextOf(<<WordOpen, CondA, WordOr, CondB, WordClose, WordAnd, CondA>>)
    /\ ast.kind = "Binary"
    /\ ast.Left.kind = "Paren"
    /\ ast.Left.Child.kind = "Binary"

(***************************************************************************)
(* C10  Stacked NOT: n >= 1 "not" before a condition C parse into n nested *)
(* Not nodes and render as NOT (NOT (... (NOT C))), the outermost NOT bare *)
(* and every inner one in one pair of parentheses; a NOT that is an        *)
(* operand of AND or OR renders as "(NOT C)".                              *)
(***************************************************************************)
RECURSIVE Nots(_, _)
Nots(n, ws) == IF n = 0 THEN ws ELSE <<WordNot>> \o Nots(n - 1, ws)

RECURSIVE NotChain(_, _)
NotChain(n, t) ==
    IF n = 1 THEN opNot \o Sp \o t
    ELSE opNot \o Sp \o InParens(NotChain(n - 1, t))

\* the number of Not nodes stacked at the top of n, and the node below them
RECURSIVE NotDepth(_)
NotDepth(n) == IF n.kind = "Not" THEN 1 + NotDepth(n.Child) ELSE 0

RECURSIVE BelowNots(_)
BelowNots(n) == IF n.kind = "Not" THEN BelowNots(n.Child) ELSE n

C10_StackedNot ==
    Accepted =>
      \A x \in Conds :
        /\ \A n \in 1..(MaxOps + 1) :
             input = TextOf(Nots(n, <<x>>))
               => /\ sql = NotChain(n, SqlOf(x))
                  /\ NotDepth(ast) = n
                  /\ BelowNots(ast).kind = "Condition"
        /\ \A y \in Conds :
             /\ input = TextOf(<<WordNot, x, WordOr, y>>)
                  => sql = InParens(opNot \o Sp \o SqlOf(x)) \o SpOr \o SqlOf(y)
             /\ input = TextOf(<<x, WordAnd, WordNot, y>>)
                  => sql = SqlOf(x) \o SpAnd \o InParens(opNot \o Sp \o SqlOf(y))

\* "not not not a eq 1" has been rendered
C10_Witness ==
    /\ Accepted
    /\ input = TextOf(Nots(MaxOps, <<CondA>>))
    /\ ast.kind = "Not"
    /\ ast.Child.kind = "Not"

(***************************************************************************)
(* The filters of SpecNest: a comparison inside k pairs of parentheses for *)
(* k up to MaxNest, such a group joined by and/or with a shallow group on  *)
(* either side, two sibling groups inside k pairs, a "not" before or       *)
(* inside the groups, and a group whose last ")" is missing.               *)
(***************************************************************************)
MaxNest == 12

RECURSIVE Nest(_, _)
Nest(k, ws) ==
    IF k = 0 THEN ws ELSE <<WordOpen>> \o Nest(k - 1, ws) \o <<WordClose>>

\* (a eq 1) or (a eq 1)
Siblings == <<WordOpen, CondA, WordClose, WordOr, WordOpen, CondA, WordClose>>

NestWords ==
    {Nest(k, <<CondA>>) : k \in 0..MaxNest}
    \cup {Nest(k, <<CondA>>) \o <<o>> \o Nest(j, <<CondA>>) :
             k \in 0..MaxNest, j \in 0..1, o \in {WordAnd, WordOr}}
    \cup {Nest(j, <<CondA>>) \o <<o>> \o Nest(k, <<CondA>>) :
             k \in 0..MaxNest, j \in 0..1, o \in {WordAnd, WordOr}}
    \cup {Nest(k - 1, Siblings) : k \in 1..MaxNest}
    \cup {Nest(k, <<WordNot, CondA>>) : k \in 0..MaxNest}
    \cup {<<WordNot>> \o Nest(k, <<CondA>>) : k \in 0..MaxNest}
    \cup {SubSeq(Nest(k, <<CondA>>), 1, 2 * k) : k \in 1..MaxNest}

NestFilters == {TextOf(ws) : ws \in NestWords}

InitNest == \E in \in NestFilters : InitCall(in)

SpecNest == InitNest /\ [][Next]_vars

(***************************************************************************)
(* C11  The nesting limit is exactly 10.  A filter of SpecNest whose       *)
(* parentheses are balanced is well formed; it is accepted when its        *)
(* groups nest at most 10 deep, with an AST whose Paren nodes nest as deep *)
(* as the source, and rejected with the nesting-depth error when some      *)
(* group is nested 11 or more deep.  Sibling groups do not add up: two or  *)
(* three groups side by side count as the deepest of them.                 *)
(***************************************************************************)
Max2(a, b) == IF a > b THEN a ELSE b

\* the deepest nesting of "(" in s from position i on, cur included
RECURSIVE DepthScan(_, _, _)
DepthScan(s, i, cur) ==
    IF i > Len(s) THEN cur
    ELSE IF s[i] = "(" THEN DepthScan(s, i + 1, cur + 1)
    ELSE IF s[i] = ")" THEN Max2(cur, DepthScan(s, i + 1, cur - 1))
    ELSE DepthScan(s, i + 1, cur)

GroupDepth(s) == DepthScan(s, 1, 0)

Balanced(s) ==
    /\ CountChar(s, "(") = CountChar(s, ")")
    /\ \A i \in 1..Len(s) :
         CountChar(SubSeq(s, 1, i), "(") >= CountChar(SubSeq(s, 1, i), ")")

\* the deepest nesting of Paren nodes in n
RECURSIVE ParenHeight(_)
ParenHeight(n) ==
    CASE n.kind = "Binary" ->
           Max2(ParenHeight(n.Left), ParenHeight(n.Right))
      [] n.kind = "Not" -> ParenHeight(n.Child)
      [] n.kind = "Paren" -> 1 + ParenHeight(n.Child)
      [] OTHER -> 0

NestingError == "exceeded maximum nesting depth"

C11_NestingLimit ==
    (Ended /\ Balanced(filter)) =>
      /\ GroupDepth(filter) <= 10 =>
           /\ Accepted
           /\ sql # <<>>
           /\ ParenHeight(ast) = GroupDepth(filter)
      /\ GroupDepth(filter) >= 11 =>
           /\ Rejected
           /\ err.cause = NestingError
           /\ sql = <<>>

\* "(((((((((((a eq 1)))))))))))", 11 deep, has been rejected
C11_Witness ==
    /\ Rejected
    /\ input = TextOf(Nest(11, <<CondA>>))
    /\ GroupDepth(filter) = 11
    /\ err.cause = NestingError

(***************************************************************************)
(* The filters of SpecOps: every upper/lower-case spelling of the six      *)
(* comparison keywords and of and, or, not, in, each in a filter that is   *)
(* otherwise in lower case.                                                *)
(***************************************************************************)
ToUpperCh(c) ==
    IF IsLower(c)
    THEN UpperLetters[CHOOSE i \in 1..Len(LowerLetters) : LowerLetters[i] = c]
    ELSE c

\* the spellings of the lower-case word w, each letter in either case
RECURSIVE CaseSpellings(_)
CaseSpellings(w) ==
    IF w = <<>> THEN {<<>>}
    ELSE {<<c>> \o r : c \in {w[1], ToUpperCh(w[1])},
                       r \in CaseSpellings(Tail(w))}

CmpWords ==
    { <<"e","q">>, <<"n","e">>, <<"g","t">>, <<"g","e">>, <<"l","t">>,
      <<"l","e">> }

WordIn == <<"i","n">>
WordName == <<"n","a","m","e">>
WordBob == <<"'","B","o","b","'">>

CmpSpellings == UNION {CaseSpellings(k) : k \in CmpWords}

OpsWords ==
    {<<WordName, o, WordBob>> : o \in CmpSpellings}
    \cup {<<<<"a">>, o, <<"1">>, l, <<"b">>, <<"n","e">>, <<"2">>>> :
             o \in CmpSpellings,
             l \in CaseSpellings(WordAnd) \cup CaseSpellings(WordOr)}
    \cup {<<n, <<"a">>, o, <<"1">>>> :
             n \in CaseSpellings(WordNot), o \in CmpWords}
    \cup {<<<<"a">>, i, <<"(","1",",">>, <<"2",")">>>> :
             i \in CaseSpellings(WordIn)}

OpsFilters == {TextOf(ws) : ws \in OpsWords}

InitOps == \E in \in OpsFilters : InitCall(in)

SpecOps == InitOps /\ [][Next]_vars

(***************************************************************************)
(* C12  Each comparison keyword is rendered as its SQL operator (eq as =,  *)
(* ne as !=, gt as >, ge as >=, lt as <, le as <=) and and, or, not, in as *)
(* AND, OR, NOT, IN, whatever the case of the letters of the keyword: a    *)
(* filter of SpecOps is accepted and its SQL is the source with every      *)
(* keyword, in any spelling, replaced by its SQL operator.                 *)
(***************************************************************************)
KeywordSql ==
    { <<<<"e","q">>, <<"=">>>>, <<<<"n","e">>, <<"!","=">>>>,
      <<<<"g","t">>, <<">">>>>, <<<<"g","e">>, <<">","=">>>>,
      <<<<"l","t">>, <<"<">>>>, <<<<"l","e">>, <<"<","=">>>>,
      <<WordAnd, <<"A","N","D">>>>, <<WordOr, <<"O","R">>>>,
      <<WordNot, <<"N","O","T">>>>, <<WordIn, <<"I","N">>>> }

IsKeywordSpelling(w) == \E k \in KeywordSql : w \in CaseSpellings(k[1])

\* the SQL of one source word: the operator of a keyword, else the word
SqlWord(w) ==
    IF IsKeywordSpelling(w)
    THEN (CHOOSE k \in KeywordSql : w \in CaseSpellings(k[1]))[2]
    ELSE w

SqlOfWords(ws) == TextOf([i \in DOMAIN ws |-> SqlWord(ws[i])])

C12_KeywordsAnyCase ==
    Ended =>
      \A ws \in OpsWords :
        input = TextOf(ws) => (Accepted /\ sql = SqlOfWords(ws))

\* "name Eq 'Bob'" has been rendered as "name = 'Bob'"
C12_Witness ==
    /\ Accepted
    /\ input = TextOf(<<WordName, <<"E","q">>, WordBob>>)
    /\ sql = <<"n","a","m","e"," ","="," ","'","B","o","b","'">>

(***************************************************************************)
(* C13  The field of an accepted condition is the source identifier in     *)
(* snake_case: "_" is put after every lower-case letter or digit that an   *)
(* upper-case letter follows, and every letter is lowered (FirstName gives *)
(* first_name, isActive gives is_active).  The field has no upper-case     *)
(* letter, converting it again leaves it as it is, and the SQL starts with *)
(* it.                                                                     *)
(***************************************************************************)
\* "_" belongs after position i of w
SnakeBoundary(w, i) ==
    /\ i < Len(w)
    /\ (IsLower(w[i]) \/ IsDigit(w[i]))
    /\ IsUpper(w[i + 1])

\* the snake_case of w, written from position i on
RECURSIVE SnakeFrom(_, _)
SnakeFrom(w, i) ==
    IF i > Len(w) THEN <<>>
    ELSE <<ToLowerCh(w[i])>>
         \o (IF SnakeBoundary(w, i) THEN <<"_">> ELSE <<>>)
         \o SnakeFrom(w, i + 1)

StartsWith(s, p) == Len(s) >= Len(p) /\ SubSeq(s, 1, Len(p)) = p

C13_FieldSnakeCase ==
    (Accepted /\ ast.kind \in {"Condition", "In"}) =>
      /\ ast.Field = SnakeFrom(tokens[1].val, 1)
      /\ \A i \in DOMAIN ast.Field : ~IsUpper(ast.Field[i])
      /\ ToSnakeCase(ast.Field) = ast.Field
      /\ StartsWith(sql, ast.Field \o Sp)

\* isActive has been emitted as is_active
C13_Witness ==
    /\ Accepted
    /\ tokens[1].val = <<"i","s","A","c","t","i","v","e">>
    /\ ast.kind = "Condition"
    /\ ast.Field = <<"i","s","_","a","c","t","i","v","e">>

(***************************************************************************)
(* C14  "color in ()" is rejected, and an accepted "color in (v1, ...,     *)
(* vn)" has an In node that holds the n >= 1 sanitized values in the order *)
(* of the source and renders as "color IN (s1, ..., sn)", the values in    *)
(* that order with ", " between two.                                       *)
(***************************************************************************)
WordColor == <<"c","o","l","o","r">>
EmptyInError == "IN operator must have at least one value"

\* the token of the i-th value of the list that starts at the fourth token
InValueToken(i) == tokens[2 * i + 2]

C14_InList ==
    Ended =>
      \A l \in InLists :
        input = InHead \o CommaSpaced(l) \o <<")">> =>
          IF l = <<>>
          THEN /\ Rejected
               /\ err.cause = EmptyInError
               /\ sql = <<>>
               /\ ast = NoNode
          ELSE /\ Accepted
               /\ ast.kind = "In"
               /\ ast.Field = WordColor
               /\ Len(ast.Values) = Len(l)
               /\ \A i \in DOMAIN l :
                    /\ InValueToken(i).val = l[i]
                    /\ ast.Values[i] = SanitizeValue(InValueToken(i).val)
               /\ sql = WordColor \o <<" ","I","N"," ","(">>
                          \o CommaSpaced(ast.Values) \o <<")">>

\* "color in ('a;b', 1)" has been rendered as "color IN ('a;b', 1)"
C14_Witness ==
    /\ Accepted
    /\ input = InHead \o <<"'","a",";","b","'",","," ","1",")">>
    /\ ast.Values = << <<"'","a",";","b","'">>, <<"1">> >>
    /\ sql = WordColor \o <<" ","I","N"," ","(","'","a",";","b","'",","," ","1",")">>

(***************************************************************************)
(* C17  An IN list that holds a bare true, false or null is rejected:      *)
(* "color in (true, false)" and "color in (null, 'red')" yield an error.   *)
(* The code accepts them: the tokenizer has no keyword for the three       *)
(* words, so each is an identifier token, which the IN loop takes as a     *)
(* value and SanitizeValue writes bare.                                    *)
(***************************************************************************)
C17_BooleanInListRejected ==
    Ended =>
      \A l \in InLists :
        (/\ input = InHead \o CommaSpaced(l) \o <<")">>
         /\ \E i \in DOMAIN l : l[i] \in BareLiterals)
          => Rejected

(***************************************************************************)
(* The filters of SpecMalformed: a complete expression alone and followed  *)
(* by words that do not continue it; a logical operator with no right      *)
(* operand, at the end, before another and/or, or first in the filter; IN  *)
(* lists with a trailing comma, a missing comma or no ")" at the end.      *)
(***************************************************************************)
\* status eq true
CondStatus == <<"s","t","a","t","u","s"," ","e","q"," ","t","r","u","e">>
\* c in (1, 2)
CondIn == <<"c"," ","i","n"," ","(","1",","," ","2",")">>

TrailHeads ==
    { <<CondA>>, <<CondStatus>>, <<CondIn>>,
      <<WordOpen, CondA, WordClose>>,
      <<WordNot, CondA>>,
      <<CondA, WordOr, CondB>>,
      <<CondA, WordAnd, WordNot, CondB>> }

TrailTexts ==
    {
      <<")">>,   \* )
      <<"(">>,   \* (
      <<",">>,   \* ,
      <<"e","q"," ","f","a","l","s","e">>,   \* eq false
      <<"-","-">>,   \* --
      <<"|","|"," ","'","B","o","b","'">>,   \* || 'Bob'
      <<"b"," ","n","e"," ","'","x","'">>,   \* b ne 'x'
      <<"n","o","t"," ","a"," ","e","q"," ","1">>,   \* not a eq 1
      <<"'","x","'">>,   \* 'x'
      <<"1">> }   \* 1

TrailFilters ==
    {TextOf(h) : h \in TrailHeads}
    \cup {TextOf(h) \o Sp \o t : h \in TrailHeads, t \in TrailTexts}

LogicWords == {WordAnd, WordOr, <<"A","N","D">>, <<"O","r">>}

OperandWords ==
    {h \o <<o>> : h \in TrailHeads \ {<<CondIn>>}, o \in LogicWords \cup {WordNot}}
    \cup {h \o <<o, WordNot>> : h \in {<<CondA>>, <<WordOpen, CondA>>},
                                o \in LogicWords}
    \cup {<<WordNot>>, <<WordNot, WordNot>>, <<WordOpen, WordNot>>}
    \cup {<<CondA, o, p, CondB>> : o \in LogicWords, p \in LogicWords}
    \cup {<<o, CondA>> : o \in LogicWords}
    \cup {<<WordOpen, o, CondA, WordClose>> : o \in LogicWords}

OperandFilters == {TextOf(ws) : ws \in OperandWords}

InListHeads ==
    {
      <<"c","o","l","o","r"," ","i","n"," ">>,   \* color in
      <<"a","g","e"," ","i","n"," ">> }   \* age in

InListTexts ==
    {
      <<"(","'","r","e","d","'",",",")">>,   \* ('red',)
      <<"(","'","r","e","d","'",","," ",")">>,   \* ('red', )
      <<"(","1",","," ","2",",",")">>,   \* (1, 2,)
      <<"(","1"," ","2",")">>,   \* (1 2)
      <<"(","'","a","'"," ","'","b","'",")">>,   \* ('a' 'b')
      <<"(",",","1",")">>,   \* (,1)
      <<"(","1",",",",","2",")">>,   \* (1,,2)
      <<"(",",",")">>,   \* (,)
      <<"(","'","r","e","d","'">>,   \* ('red'
      <<"(","'","r","e","d","'",",">>,   \* ('red',
      <<"(","1",","," ","2">>,   \* (1, 2
      <<"(">>,   \* (
      <<"1",")">>,   \* 1)
      <<"(","1",")">>,   \* (1)
      <<"(","1",",","2",")">>,   \* (1,2)
      <<"(","'","r","e","d","'",","," ","'","b","'",")">> }   \* ('red', 'b')

InListFilters == {h \o t : h \in InListHeads, t \in InListTexts}

MalformedFilters == TrailFilters \cup OperandFilters \cup InListFilters

InitMalformed == \E in \in MalformedFilters : InitCall(in)

SpecMalformed == InitMalformed /\ [][Next]_vars

(***************************************************************************)
(* C15  parse succeeds only if it has consumed every token.  A complete    *)
(* expression followed by one more token or several (an unmatched ")", a   *)
(* second comparison as in "status eq true eq false", "--", "|| 'Bob'")    *)
(* is rejected with the extra-tokens error and no AST, and the nodes of an *)
(* AST that is returned account for every token.                           *)
(***************************************************************************)
ExtraTokensError == "unexpected extra tokens"

\* the tokens an AST without an In node was built from
RECURSIVE TokenCount(_)
TokenCount(n) ==
    CASE n.kind = "Binary" -> TokenCount(n.Left) + 1 + TokenCount(n.Right)
      [] n.kind = "Not" -> 1 + TokenCount(n.Child)
      [] n.kind = "Paren" -> 2 + TokenCount(n.Child)
      [] n.kind = "Condition" -> 3
      [] OTHER -> 0

RECURSIVE HasIn(_)
HasIn(n) ==
    CASE n.kind = "Binary" -> HasIn(n.Left) \/ HasIn(n.Right)
      [] n.kind \in {"Not", "Paren"} -> HasIn(n.Child)
      [] n.kind = "In" -> TRUE
      [] OTHER -> FALSE

C15_WholeInputConsumed ==
    Ended =>
      /\ \A h \in TrailHeads, t \in TrailTexts :
           input = TextOf(h) \o Sp \o t =>
             /\ Rejected
             /\ err.cause = ExtraTokensError
             /\ ast = NoNode
             /\ sql = <<>>
      /\ (Accepted /\ ~HasIn(ast)) => TokenCount(ast) = Len(tokens)

\* "status eq true eq false" has been rejected
C15_Witness ==
    /\ Rejected
    /\ input = CondStatus \o <<" ","e","q"," ","f","a","l","s","e">>
    /\ err.cause = ExtraTokensError
    /\ Len(tokens) = 5

(***************************************************************************)
(* C16  A logical operator without its right operand is an error: when the *)
(* tokens end right after and, or, not, when and/or is followed at once by *)
(* another and/or, or when and/or is the first token ("or age gt 30",      *)
(* "age gt 18 and or status eq 'active'"), FilterToSQL returns an error    *)
(* and no SQL.                                                             *)
(***************************************************************************)
AndOrTypes == {tOpAnd, tOpOr}

MissingRightOperand(toks) ==
    /\ toks # <<>>
    /\ \/ toks[Len(toks)].typ \in AndOrTypes \cup {tOpNot}
       \/ toks[1].typ \in AndOrTypes
       \/ \E i \in 1..(Len(toks) - 1) :
            toks[i].typ \in AndOrTypes /\ toks[i + 1].typ \in AndOrTypes

C16_MissingOperand ==
    (Ended /\ MissingRightOperand(tokens)) =>
      /\ Rejected
      /\ sql = <<>>
      /\ ast = NoNode

\* "a eq 1 and" has been rejected: the tokens end after AND
C16_Witness ==
    /\ Rejected
    /\ input = TextOf(<<CondA, WordAnd>>)
    /\ Len(tokens) = 4
    /\ tokens[4].typ = tOpAnd
    /\ sql = <<>>

(***************************************************************************)
(* C20  An IN condition is accepted only if its list is "(" literal        *)
(* ("," literal)* ")": every comma in the list is followed by a literal    *)
(* and the list ends with ")".  The code accepts a comma right before the  *)
(* ")": after a comma the loop of the IN branch first tests for ")" and    *)
(* leaves, so "color in ('red',)" is parsed as "color in ('red')".         *)
(***************************************************************************)
\* toks from position p on are: literal ("," literal)* ")" and nothing more
RECURSIVE ListBody(_, _)
ListBody(toks, p) ==
    /\ p + 1 <= Len(toks)
    /\ toks[p].typ \in {tString, tNumber, tIdentifier}
    /\ \/ toks[p + 1].typ = tParenClose /\ p + 1 = Len(toks)
       \/ toks[p + 1].typ = tComma /\ ListBody(toks, p + 2)

C20_InListGrammar ==
    (Accepted /\ Len(tokens) >= 2 /\ tokens[2].typ = tOpIn) =>
      /\ Len(tokens) >= 3
      /\ tokens[3].typ = tParenOpen
      /\ ListBody(tokens, 4)

(***************************************************************************)
(* C18  A filter that is empty or all white space yields the empty string  *)
(* and no error, and neither the tokenizer nor the parser is called: the   *)
(* call goes from its first step straight to its return.                   *)
(***************************************************************************)
AllWhite(s) == \A i \in DOMAIN s : s[i] \in {" ", "\t", "\n", "\r"}

C18_BlankFilter ==
    AllWhite(input) =>
      /\ pc \in {"FilterToSQL", "returned"}
      /\ sql = <<>>
      /\ err = NoErr
      /\ tokens = <<>>
      /\ ast = NoNode

\* the call with " \t " has returned
C18_Witness ==
    /\ pc = "returned"
    /\ input = <<" ", "\t", " ">>
    /\ filter = <<>>
    /\ sql = <<>>
    /\ err = NoErr

(***************************************************************************)
(* C19  The SQL literal of a quoted string in value position denotes the   *)
(* content of the source literal: one quote is taken off each end, each    *)
(* '' of the source is one quote of the content, and every quote of the    *)
(* content is written doubled wherever it stands, so 'O''Brien' gives      *)
(* 'O''Brien' and '''a' gives '''a'.  The code takes every quote off both  *)
(* ends of the content: '''a' gives 'a'.                                   *)
(***************************************************************************)
\* the source text of the value of a comparison whose value is a quoted
\* string: the filter from its first single quote on
RECURSIVE FromFirstQuote(_)
FromFirstQuote(s) ==
    IF s = <<>> \/ Head(s) = "'" THEN s ELSE FromFirstQuote(Tail(s))

\* the content a source literal denotes: the text between its two outer
\* quotes with each '' read as one quote
RECURSIVE Unescaped(_)
Unescaped(s) ==
    IF s = <<>> THEN <<>>
    ELSE IF Head(s) = "'" THEN <<"'">> \o Unescaped(Drop(s, 3))
    ELSE <<Head(s)>> \o Unescaped(Tail(s))

SourceContent(lit) == Unescaped(SubSeq(lit, 2, Len(lit) - 1))

\* the SQL literal of a content: every quote doubled, between two quotes
RECURSIVE Doubled(_)
Doubled(s) ==
    IF s = <<>> THEN <<>>
    ELSE IF Head(s) = "'" THEN <<"'", "'">> \o Doubled(Tail(s))
    ELSE <<Head(s)>> \o Doubled(Tail(s))

SqlString(content) == <<"'">> \o Doubled(content) \o <<"'">>

C19_StringContentKept ==
    (/\ Accepted
     /\ ast.kind = "Condition"
     /\ Len(tokens) = 3
     /\ tokens[3].typ = tString)
      => ast.Value = SqlString(SourceContent(FromFirstQuote(filter)))

(***************************************************************************)
(* The filters of SpecStack: operators repeated without parentheses.       *)
(*   - up to MaxNots "not" stacked before a condition, bare or in a group  *)
(*   - up to MaxChain "and" or "or" chaining conditions, bare, in a group  *)
(*     or under a "not"                                                    *)
(*   - "not (" nested up to MaxNots deep: one NOT at each level            *)
(***************************************************************************)
MaxNots == 5
MaxChain == 4

\* a eq 1 o a eq 1 o ... with m operators o
RECURSIVE Chain(_, _)
Chain(m, o) == IF m = 0 THEN <<CondA>> ELSE Chain(m - 1, o) \o <<o, CondA>>

\* not (not (... c ...)) with k groups
RECURSIVE NotGroups(_, _)
NotGroups(k, ws) ==
    IF k = 0 THEN ws
    ELSE <<WordNot, WordOpen>> \o NotGroups(k - 1, ws) \o <<WordClose>>

StackWords ==
    {Nots(j, Nest(k, <<CondA>>)) : j \in 0..MaxNots, k \in 0..1}
    \cup {Nest(1, Nots(j, <<CondA>>)) : j \in 1..MaxNots}
    \cup {Nest(k, Chain(m, o)) :
             m \in 1..MaxChain, k \in 0..1, o \in {WordAnd, WordOr}}
    \cup {<<WordNot>> \o Chain(m, o) :
             m \in 1..MaxChain, o \in {WordAnd, WordOr}}
    \cup {NotGroups(k, <<WordNot, CondA>>) : k \in 1..MaxNots}

StackFilters == {TextOf(ws) : ws \in StackWords}

InitStack == \E in \in StackFilters : InitCall(in)

SpecStack == InitStack /\ [][Next]_vars

(***************************************************************************)
(* C21  The call stack of a parse is capped by the nesting limit: parse,   *)
(* parseConditionOrIn, and at each level of parentheses entered at most    *)
(* parseExpression, parseOr, parseAnd, parseNot for a NOT, parseNot and    *)
(* parsePrimary.  parsePrimary is entered at no more than                  *)
(* maxNestingDepth + 2 levels, so the cap is a constant whatever the       *)
(* number of tokens.  The code does not keep it: parseNot calls itself for *)
(* each NOT with the same depth and no test, so "not not a eq 1" already   *)
(* stands one call deeper than its one level allows, and every further     *)
(* "not" adds a call.                                                      *)
(***************************************************************************)
\* the levels at which a parse of s enters parsePrimary, at most
LevelsEntered(s) ==
    IF GroupDepth(s) > maxNestingDepth THEN maxNestingDepth + 2
    ELSE GroupDepth(s) + 1

\* parse and parseConditionOrIn, and six calls at each level
StackCap(levels) == 2 + 6 * levels

C21_StackCapped == calls <= StackCap(LevelsEntered(filter))

(***************************************************************************)
(* C22  The height of the AST parse returns is capped by the nesting       *)
(* limit: at each level of parentheses at most an OR node, an AND node, a  *)
(* NOT node and the group or the condition itself, at no more than         *)
(* maxNestingDepth + 1 levels, so a constant whatever the length of the    *)
(* input; ToSQL recurses once per node on a path, so as deep.  The code    *)
(* does not keep it: the loops of parseOr and parseAnd put the tree built  *)
(* so far under a new Binary node for each operator, and parseNot puts one *)
(* Not node over the next for each NOT, neither with a test, so a chain of *)
(* four operators or four stacked "not" without any parentheses is already *)
(* five nodes high.                                                        *)
(***************************************************************************)
\* the nodes on the longest path from n down to a condition
RECURSIVE Height(_)
Height(n) ==
    CASE n.kind = "Binary" -> 1 + Max2(Height(n.Left), Height(n.Right))
      [] n.kind = "Not" -> 1 + Height(n.Child)
      [] n.kind = "Paren" -> 1 + Height(n.Child)
      [] OTHER -> 1

\* four nodes at each level
HeightCap(levels) == 4 * levels

C22_HeightCapped == HasAst => Height(ast) <= HeightCap(ParenHeight(ast) + 1)

====
